---- MODULE Spec2Model ----
(***************************************************************************)
(* Expense approval engine of the expense-management backend               *)
(* (app/database/services/expense_approval_service.py).                    *)
(*                                                                         *)
(* One expense, the approval rule of its submitter, and the rows of the    *)
(* expense_approvals table that belong to the expense.  Every service      *)
(* method is one action; a method that ends by calling                     *)
(* check_expense_approval_status carries that call inside the action.      *)
(* sessions holds the decision calls that run step by step, each in its    *)
(* own database session, where calls are interleaved.                      *)
(***************************************************************************)
EXTENDS Integers, Sequences, FiniteSets, TLC

VARIABLES approval_rule, expense_status, approvals, response, sessions

vars == <<approval_rule, expense_status, approvals, response, sessions>>

(***************************************************************************)
(* Bounds and input domains                                                *)
(***************************************************************************)
\* largest number of steps of a rule
MaxSteps == 3

\* largest number of steps of a rule where decision calls are interleaved
MaxConcurrentSteps == 1

\* largest number of approvers in a rule request
MaxApprovers == 2

\* stored min_approval_percentage values that are explored
Percentages == {50, 75, 100}

\* ApprovalRule.approver_sequence
SEQUENTIAL == 1
PARALLEL == 0

\* manager_id of a rule without manager (NULL column)
NoManager == 0

\* absence of a rule row for the submitter
NoRule == [none |-> TRUE]

\* user ids that call the service
Users == 1 .. (MaxSteps + 1)

(***************************************************************************)
(* Rules that create_approval_rule stores: the approvers are distinct      *)
(* users, the sequence orders are 1..N with N >= 1, the percentage is      *)
(* positive (0 or None is stored as 100).  steps is the list of            *)
(* approval_steps rows of the rule; in the rules the engine starts from,   *)
(* approvers are named after their step.  The manager is absent, one of    *)
(* the approvers, or the next user, who is not an approver.                *)
(***************************************************************************)
\* a row of approval_steps
ApprovalStep(approver, order) == [approver_id |-> approver, sequence_order |-> order]

StepLists == { [i \in 1 .. n |-> ApprovalStep(i, i)] : n \in 1 .. MaxSteps }

ManagerIds(st) == {NoManager} \cup (1 .. (Len(st) + 1))

RulesWithSteps(st) ==
    { [is_manager_approver |-> g, manager_id |-> m, approver_sequence |-> s,
       min_approval_percentage |-> p, steps |-> st] :
        g \in BOOLEAN, m \in ManagerIds(st), s \in {SEQUENTIAL, PARALLEL},
        p \in Percentages }

ApprovalRules == UNION { RulesWithSteps(st) : st \in StepLists }

(***************************************************************************)
(* Rows of expense_approvals                                               *)
(***************************************************************************)
ExpenseApproval(approver, order, is_manager) ==
    [approver_id |-> approver, sequence_order |-> order,
     is_manager_approval |-> is_manager, status |-> "pending"]

\* the row with its status column rewritten
WithStatus(rows, target, st) ==
    { IF a = target THEN [a EXCEPT !.status = st] ELSE a : a \in rows }

\* a and b are the same row of the table (the same primary key)
same_row(a, b) ==
    /\ a.approver_id = b.approver_id
    /\ a.sequence_order = b.sequence_order
    /\ a.is_manager_approval = b.is_manager_approval

\* UPDATE ... WHERE id = target's key: the status column of that row is
\* rewritten whatever it holds
update_status(rows, target, st) ==
    { IF same_row(a, target) THEN [a EXCEPT !.status = st] ELSE a : a \in rows }

RECURSIVE SortBySequence(_)
\* list.sort(key=sequence_order)
SortBySequence(rows) ==
    IF rows = {} THEN <<>>
    ELSE LET m == CHOOSE a \in rows : \A b \in rows : a.sequence_order <= b.sequence_order
         IN <<m>> \o SortBySequence(rows \ {m})

non_manager_approvals(rows) == { a \in rows : ~a.is_manager_approval }

(***************************************************************************)
(* Percentages are kept as fractions <<numerator, denominator>>            *)
(***************************************************************************)
Percentage(count, total) == IF total > 0 THEN <<count * 100, total>> ELSE <<0, 1>>

\* approval_percentage >= min_approval_percentage
PctGT(pct, min) == pct[1] > min * pct[2]
PctGE(pct, min) == pct[1] >= min * pct[2]

(***************************************************************************)
(* Snapshots (ExpenseApprovalStatusResponse)                               *)
(***************************************************************************)
\* next_approver: None, an approver's name, or the label "<k> approvers"
None == <<"none", 0>>
ApproverName(a) == <<"name", a.approver_id>>
ApproversLabel(k) == <<"count", k>>

NoSnapshot ==
    [current_status |-> "none", is_fully_approved |-> FALSE,
     approval_percentage |-> <<0, 1>>, required_percentage |-> 0,
     next_approver |-> None, pending_approvals |-> {}, completed_approvals |-> {},
     manager_approval_required |-> FALSE, manager_approved |-> FALSE,
     sequential_approval |-> FALSE, can_proceed_to_next_step |-> FALSE]

NoTask == [approver_id |-> 0, sequence_order |-> -1,
           is_manager_approval |-> FALSE, status |-> "none"]

(***************************************************************************)
(* Evaluation helpers                                                      *)
(***************************************************************************)
\* sum(1 for approval in approvals if status == "approved")
approved_count(rows) == Cardinality({ a \in rows : a.status = "approved" })

\* sum(1 for approval in approvals if status in ["pending", "approved"])
total_required(rows) == Cardinality({ a \in rows : a.status \in {"pending", "approved"} })

\* manager_approved as computed by the evaluation and by the response builder
manager_approved(rows, rule) ==
    IF rule.is_manager_approver
    THEN \E a \in rows : a.is_manager_approval /\ a.status = "approved"
    ELSE TRUE

RECURSIVE progression_loop(_)
\* the for loop of _check_approval_progression over the sorted rows
progression_loop(sorted) ==
    IF sorted = <<>> THEN <<TRUE, None>>
    ELSE IF Head(sorted).status = "pending" THEN <<TRUE, ApproverName(Head(sorted))>>
    ELSE IF Head(sorted).status = "rejected" THEN <<FALSE, None>>
    ELSE progression_loop(Tail(sorted))

\* _check_approval_progression without the manager gate block
check_approval_progression_NoManager(rows, rule, mgr_approved) ==
    IF rule.approver_sequence = SEQUENTIAL
    THEN progression_loop(SortBySequence(non_manager_approvals(rows)))
    ELSE LET pending == { a \in rows : a.status = "pending" /\ ~a.is_manager_approval }
         IN IF pending # {} THEN <<TRUE, ApproversLabel(Cardinality(pending))>>
            ELSE <<TRUE, None>>

\* _check_approval_progression: <<can_proceed, next_approver>>
check_approval_progression(rows, rule, mgr_approved) ==
    IF /\ rule.is_manager_approver
       /\ ~mgr_approved
       /\ \E a \in rows : a.is_manager_approval
    THEN <<FALSE, ApproverName(CHOOSE a \in rows : a.is_manager_approval)>>
    ELSE IF rule.approver_sequence = SEQUENTIAL
    THEN progression_loop(SortBySequence(non_manager_approvals(rows)))
    ELSE LET pending == { a \in rows : a.status = "pending" /\ ~a.is_manager_approval }
         IN IF pending # {} THEN <<TRUE, ApproversLabel(Cardinality(pending))>>
            ELSE <<TRUE, None>>

RECURSIVE sequential_loop(_)
\* the for loop of _check_sequential_requirements over the sorted rows
sequential_loop(sorted) ==
    IF sorted = <<>> THEN TRUE
    ELSE IF Head(sorted).status = "rejected" THEN FALSE
    ELSE IF /\ Head(sorted).status = "pending"
            /\ \E i \in 1 .. Len(Tail(sorted)) : Tail(sorted)[i].status = "approved"
    THEN FALSE
    ELSE sequential_loop(Tail(sorted))

\* _check_sequential_requirements
check_sequential_requirements(rows, rule) ==
    IF rule.approver_sequence = PARALLEL THEN TRUE
    ELSE sequential_loop(SortBySequence(non_manager_approvals(rows)))

\* _can_manager_approve_now without the sequential turn check
can_manager_approve_now_NoSeq(rows, rule, approval) ==
    IF rule = NoRule THEN TRUE
    ELSE IF approval.is_manager_approval /\ rule.is_manager_approver THEN TRUE
    ELSE IF /\ rule.is_manager_approver
            /\ ~approval.is_manager_approval
            /\ ~\E a \in rows : a.is_manager_approval /\ a.status = "approved"
    THEN FALSE
    ELSE TRUE

\* _can_manager_approve_now without the manager gate check
can_manager_approve_now_NoGate(rows, rule, approval) ==
    IF rule = NoRule THEN TRUE
    ELSE IF approval.is_manager_approval /\ rule.is_manager_approver THEN TRUE
    ELSE IF rule.approver_sequence = SEQUENTIAL
    THEN \A prev \in non_manager_approvals(rows) :
            prev.sequence_order < approval.sequence_order => prev.status = "approved"
    ELSE TRUE

\* _can_manager_approve_now comparing prev_sequence <= current_sequence
can_manager_approve_now_Le(rows, rule, approval) ==
    IF rule = NoRule THEN TRUE
    ELSE IF approval.is_manager_approval /\ rule.is_manager_approver THEN TRUE
    ELSE IF /\ rule.is_manager_approver
            /\ ~approval.is_manager_approval
            /\ ~\E a \in rows : a.is_manager_approval /\ a.status = "approved"
    THEN FALSE
    ELSE IF rule.approver_sequence = SEQUENTIAL
    THEN \A prev \in non_manager_approvals(rows) :
            prev.sequence_order <= approval.sequence_order => prev.status = "approved"
    ELSE TRUE

\* _can_manager_approve_now (the lookups succeed)
can_manager_approve_now(rows, rule, approval) ==
    IF rule = NoRule THEN TRUE
    ELSE IF approval.is_manager_approval /\ rule.is_manager_approver THEN TRUE
    ELSE IF /\ rule.is_manager_approver
            /\ ~approval.is_manager_approval
            /\ ~\E a \in rows : a.is_manager_approval /\ a.status = "approved"
    THEN FALSE
    ELSE IF rule.approver_sequence = SEQUENTIAL
    THEN \A prev \in non_manager_approvals(rows) :
            prev.sequence_order < approval.sequence_order => prev.status = "approved"
    ELSE TRUE

\* _auto_approve_expense sweeping every row that is not approved
auto_approve_expense_All(rows) ==
    [status |-> "approved",
     approvals |-> { IF a.status # "approved" THEN [a EXCEPT !.status = "auto_approved"] ELSE a
                     : a \in rows }]

\* _auto_approve_expense: the expense and its rows after the sweep
auto_approve_expense(rows) ==
    [status |-> "approved",
     approvals |-> { IF a.status = "pending" THEN [a EXCEPT !.status = "auto_approved"] ELSE a
                     : a \in rows }]

\* _build_approval_status_response for an expense without rule
build_response_no_rule(status, rows) ==
    [status |-> status, approvals |-> rows,
     snapshot |->
        [current_status |-> status, is_fully_approved |-> (status = "approved"),
         approval_percentage |-> <<100, 1>>, required_percentage |-> 0,
         next_approver |-> None, pending_approvals |-> {}, completed_approvals |-> {},
         manager_approval_required |-> FALSE, manager_approved |-> TRUE,
         sequential_approval |-> FALSE, can_proceed_to_next_step |-> TRUE]]

\* _build_approval_status_response: status and rows in the store after the
\* call (it runs the sweep) and the snapshot it returns, which lists the
\* rows as they were handed in
build_approval_status_response(status, listed, rule) ==
    IF rule = NoRule THEN build_response_no_rule(status, listed)
    ELSE
    LET pct == Percentage(approved_count(listed), Cardinality(listed))
        mgr == manager_approved(listed, rule)
        prog == check_approval_progression(listed, rule, mgr)
        is_fully_approved == /\ PctGE(pct, rule.min_approval_percentage)
                             /\ mgr
                             /\ check_sequential_requirements(listed, rule)
        sweep == is_fully_approved /\ status # "approved"
        after == IF sweep THEN auto_approve_expense(listed)
                 ELSE [status |-> status, approvals |-> listed]
    IN [status |-> after.status, approvals |-> after.approvals,
        snapshot |->
           [current_status |-> IF sweep THEN "approved" ELSE status,
            is_fully_approved |-> is_fully_approved,
            approval_percentage |-> pct,
            required_percentage |-> rule.min_approval_percentage,
            next_approver |-> prog[2],
            pending_approvals |-> { a \in listed : a.status = "pending" },
            completed_approvals |-> { a \in listed : a.status # "pending" },
            manager_approval_required |-> rule.is_manager_approver,
            manager_approved |-> mgr,
            sequential_approval |-> (rule.approver_sequence = SEQUENTIAL),
            can_proceed_to_next_step |-> prog[1]]]

\* check_expense_approval_status as run on a store: status and rows after
\* the call, and the snapshot
check_status(status, rows, rule) ==
    IF rule = NoRule
    THEN build_response_no_rule(IF status = "pending" THEN "approved" ELSE status, rows)
    ELSE
    LET pct == Percentage(approved_count(rows), total_required(rows))
        mgr == manager_approved(rows, rule)
        is_fully_approved == /\ PctGE(pct, rule.min_approval_percentage)
                             /\ mgr
                             /\ check_sequential_requirements(rows, rule)
        updated == IF is_fully_approved /\ status # "approved" THEN "approved"
                   ELSE IF (\E a \in rows : a.status = "rejected") /\ status # "rejected"
                   THEN "rejected"
                   ELSE status
    IN build_approval_status_response(updated, rows, rule)

(***************************************************************************)
(* The record of the last call: the method, the approver it was called     *)
(* for, the row its lookup selected (as it was before the call), the error *)
(* raised, the snapshot returned and the rows a pending-work view listed;  *)
(* replaced is the set of rows a re-initiation deleted, fault tells that   *)
(* a query failed during the call, approvers says what approver list a     *)
(* rule request carried.                                                   *)
(***************************************************************************)
\* a call that carries no approver list
NoList == [given |-> FALSE, orders_1_to_n |-> FALSE, distinct_ids |-> FALSE]

Response(op, approver, task, error, snapshot, reviews) ==
    [op |-> op, approver_id |-> approver, task |-> task, error |-> error,
     snapshot |-> snapshot, pending_reviews |-> reviews,
     replaced |-> {}, fault |-> FALSE, approvers |-> NoList]

\* rows matching expense_id, approver_id and status == "pending"
pending_of(rows, approver_id) ==
    { a \in rows : a.approver_id = approver_id /\ a.status = "pending" }

\* database sessions of the decision calls that are interleaved
Sessions == {1, 2}

\* a session without call; otherwise the call has found its row (pc
\* "found") or has committed its write (pc "committed"), and stale tells
\* that the row it holds was deleted by a re-initiation
Idle == [pc |-> "idle", op |-> "none", approver_id |-> 0, approval |-> NoTask,
         stale |-> FALSE]

Init ==
    /\ approval_rule \in ApprovalRules \cup {NoRule}
    /\ expense_status = "pending"
    /\ approvals = {}
    /\ response = Response("none", 0, NoTask, "", NoSnapshot, {})
    /\ sessions = [s \in Sessions |-> Idle]

\* approvals_created creating the manager row whenever the flag is set
approvals_created_FlagOnly(rule) ==
    (IF rule.is_manager_approver
     THEN {ExpenseApproval(rule.manager_id, 0, TRUE)} ELSE {})
    \cup { ExpenseApproval(rule.steps[i].approver_id, rule.steps[i].sequence_order, FALSE)
           : i \in 1 .. Len(rule.steps) }

\* rows initiate_expense_approval creates from the rule
approvals_created(rule) ==
    (IF rule.is_manager_approver /\ rule.manager_id # NoManager
     THEN {ExpenseApproval(rule.manager_id, 0, TRUE)} ELSE {})
    \cup { ExpenseApproval(rule.steps[i].approver_id, rule.steps[i].sequence_order, FALSE)
           : i \in 1 .. Len(rule.steps) }

\* the sessions after the rows of the expense were deleted: the row a
\* running call holds no longer exists
rows_deleted(ss, deleted) ==
    [s \in Sessions |->
        IF deleted /\ ss[s].pc = "found" THEN [ss[s] EXCEPT !.stale = TRUE] ELSE ss[s]]

\* initiate_expense_approval that adds the new rows to the existing ones
initiate_expense_approval_NoDelete ==
    LET result == IF approval_rule = NoRule
                  THEN build_approval_status_response("approved", approvals, NoRule)
                  ELSE build_approval_status_response("in_progress",
                            approvals \cup approvals_created(approval_rule), approval_rule)
    IN /\ expense_status' = result.status
       /\ approvals' = result.approvals
       /\ response' = Response("initiate_expense_approval", 0, NoTask, "",
                               result.snapshot, {})
       /\ sessions' = rows_deleted(sessions, approval_rule # NoRule)
       /\ UNCHANGED approval_rule

\* without rule the method returns before the delete; with a rule it
\* deletes the rows of the expense and creates the rows of the rule
initiate_expense_approval ==
    LET result == IF approval_rule = NoRule
                  THEN build_approval_status_response("approved", approvals, NoRule)
                  ELSE build_approval_status_response("in_progress",
                            approvals_created(approval_rule), approval_rule)
        deleted == IF approval_rule = NoRule THEN {} ELSE approvals
    IN /\ expense_status' = result.status
       /\ approvals' = result.approvals
       /\ response' = [Response("initiate_expense_approval", 0, NoTask, "",
                                result.snapshot, {}) EXCEPT !.replaced = deleted]
       /\ sessions' = rows_deleted(sessions, approval_rule # NoRule)
       /\ UNCHANGED approval_rule

check_expense_approval_status ==
    LET result == check_status(expense_status, approvals, approval_rule)
    IN /\ expense_status' = result.status
       /\ approvals' = result.approvals
       /\ response' = Response("check_expense_approval_status", 0, NoTask, "",
                               result.snapshot, {})
       /\ UNCHANGED <<approval_rule, sessions>>

\* the call fails before any write
raise_validation(op, approver_id, task) ==
    /\ response' = Response(op, approver_id, task, "ValidationError", NoSnapshot, {})
    /\ UNCHANGED <<approval_rule, expense_status, approvals, sessions>>

\* the decision is written and the status recomputed
decide(op, approver_id, approval, task_status, status) ==
    LET result == check_status(status, WithStatus(approvals, approval, task_status),
                               approval_rule)
    IN /\ expense_status' = result.status
       /\ approvals' = result.approvals
       /\ response' = Response(op, approver_id, approval, "", result.snapshot, {})
       /\ UNCHANGED <<approval_rule, sessions>>

\* approve_expense that writes the decision before the eligibility check
approve_expense_WriteFirst(approver_id) ==
    IF pending_of(approvals, approver_id) = {}
    THEN raise_validation("approve_expense", approver_id, NoTask)
    ELSE \E approval \in pending_of(approvals, approver_id) :
            IF ~can_manager_approve_now(approvals, approval_rule, approval)
            THEN /\ approvals' = WithStatus(approvals, approval, "approved")
                 /\ response' = Response("approve_expense", approver_id, approval,
                                         "ValidationError", NoSnapshot, {})
                 /\ UNCHANGED <<approval_rule, expense_status, sessions>>
            ELSE decide("approve_expense", approver_id, approval, "approved", expense_status)

approve_expense(approver_id) ==
    IF pending_of(approvals, approver_id) = {}
    THEN raise_validation("approve_expense", approver_id, NoTask)
    ELSE \E approval \in pending_of(approvals, approver_id) :
            IF ~can_manager_approve_now(approvals, approval_rule, approval)
            THEN raise_validation("approve_expense", approver_id, approval)
            ELSE decide("approve_expense", approver_id, approval, "approved", expense_status)

reject_expense(approver_id) ==
    IF pending_of(approvals, approver_id) = {}
    THEN raise_validation("reject_expense", approver_id, NoTask)
    ELSE \E approval \in pending_of(approvals, approver_id) :
            decide("reject_expense", approver_id, approval, "rejected", "rejected")

\* ExpenseApprovalStatus values a request can carry
RequestStatuses == {"pending", "approved", "rejected", "in_progress"}

submit_approval(approver_id, status) ==
    IF pending_of(approvals, approver_id) = {}
    THEN raise_validation("submit_approval", approver_id, NoTask)
    ELSE \E approval \in pending_of(approvals, approver_id) :
            decide("submit_approval", approver_id, approval, status, expense_status)

\* get_manager_pending_reviews that lists a row without looking at the
\* verdict of the evaluation
get_manager_pending_reviews_NoSkip(manager_id) ==
    LET pending_approvals == pending_of(approvals, manager_id)
        result == check_status(expense_status, approvals, approval_rule)
    IN IF pending_approvals = {}
       THEN /\ response' = Response("get_manager_pending_reviews", manager_id, NoTask, "",
                                    NoSnapshot, {})
            /\ UNCHANGED <<approval_rule, expense_status, approvals, sessions>>
       ELSE /\ expense_status' = result.status
            /\ approvals' = result.approvals
            /\ response' = Response("get_manager_pending_reviews", manager_id, NoTask, "",
                                    NoSnapshot,
                                    { a \in pending_approvals :
                                        can_manager_approve_now(result.approvals,
                                                                approval_rule, a) })
            /\ UNCHANGED <<approval_rule, sessions>>

get_manager_pending_reviews(manager_id) ==
    LET pending_approvals == pending_of(approvals, manager_id)
        result == check_status(expense_status, approvals, approval_rule)
        swept == auto_approve_expense(result.approvals)
    IN IF pending_approvals = {}
       THEN /\ response' = Response("get_manager_pending_reviews", manager_id, NoTask, "",
                                    NoSnapshot, {})
            /\ UNCHANGED <<approval_rule, expense_status, approvals, sessions>>
       ELSE IF result.snapshot.is_fully_approved
       THEN /\ expense_status' = swept.status
            /\ approvals' = swept.approvals
            /\ response' = Response("get_manager_pending_reviews", manager_id, NoTask, "",
                                    NoSnapshot, {})
            /\ UNCHANGED <<approval_rule, sessions>>
       ELSE /\ expense_status' = result.status
            /\ approvals' = result.approvals
            /\ response' = Response("get_manager_pending_reviews", manager_id, NoTask, "",
                                    NoSnapshot,
                                    { a \in pending_approvals :
                                        can_manager_approve_now(result.approvals,
                                                                approval_rule, a) })
            /\ UNCHANGED <<approval_rule, sessions>>

Next ==
    \/ initiate_expense_approval
    \/ check_expense_approval_status
    \/ \E approver_id \in Users : approve_expense(approver_id)
    \/ \E approver_id \in Users : reject_expense(approver_id)
    \/ \E manager_id \in Users : get_manager_pending_reviews(manager_id)

Spec == Init /\ [][Next]_vars

\* the service with the generic submit_approval entry point as well
NextSubmit ==
    \/ Next
    \/ \E approver_id \in Users, status \in RequestStatuses :
          submit_approval(approver_id, status)

SpecSubmit == Init /\ [][NextSubmit]_vars

(***************************************************************************)
(* ApprovalRuleService.delete_approval_rule on the rule of the submitter.  *)
(* The delete cascades to the approval_steps rows of the rule.  The step   *)
(* rows of the expense refer to them through approval_step_id: a database  *)
(* that enforces the foreign key (PostgreSQL) refuses the delete, one that *)
(* does not (the SQLite fallback) performs it and keeps the rows.          *)
(***************************************************************************)
delete_approval_rule ==
    IF approval_rule = NoRule
    THEN /\ response' = Response("delete_approval_rule", 0, NoTask,
                                 "ApprovalRuleNotFoundError", NoSnapshot, {})
         /\ UNCHANGED <<approval_rule, expense_status, approvals, sessions>>
    ELSE \/ /\ approval_rule' = NoRule
            /\ response' = Response("delete_approval_rule", 0, NoTask, "", NoSnapshot, {})
            /\ UNCHANGED <<expense_status, approvals, sessions>>
         \/ /\ \E a \in approvals : ~a.is_manager_approval
            /\ response' = Response("delete_approval_rule", 0, NoTask,
                                    "DatabaseError", NoSnapshot, {})
            /\ UNCHANGED <<approval_rule, expense_status, approvals, sessions>>

\* the approval engine while the submitter's rule can be deleted
NextDelete ==
    \/ Next
    \/ delete_approval_rule

SpecDelete == Init /\ [][NextDelete]_vars

(***************************************************************************)
(* The engine on a rule row that has no approval_steps rows.  The schema   *)
(* allows such a rule; create_approval_rule and update_approval_rule do    *)
(* not store one (min() of the empty order list raises), so it comes from  *)
(* rows written to the tables directly.                                    *)
(***************************************************************************)
SteplessRules == RulesWithSteps(<<>>)

InitStepless ==
    /\ approval_rule \in SteplessRules
    /\ expense_status = "pending"
    /\ approvals = {}
    /\ response = Response("none", 0, NoTask, "", NoSnapshot, {})
    /\ sessions = [s \in Sessions |-> Idle]

SpecStepless == InitStepless /\ [][Next]_vars

(***************************************************************************)
(* approve_expense and reject_expense run by concurrent requests.  Every   *)
(* request has its own session (get_db) and no row is locked, so the       *)
(* statements of two calls interleave: the query for the pending row       *)
(* (with the eligibility check of approve_expense), the commit of the      *)
(* write, and the closing check_expense_approval_status.                   *)
(***************************************************************************)
DecisionCalls == {"approve_expense", "reject_expense"}

\* the query for the pending row and, in approve_expense, the check
find_pending_approval(s, op, approver_id) ==
    /\ sessions[s].pc = "idle"
    /\ IF pending_of(approvals, approver_id) = {}
       THEN raise_validation(op, approver_id, NoTask)
       ELSE \E approval \in pending_of(approvals, approver_id) :
               IF /\ op = "approve_expense"
                  /\ ~can_manager_approve_now(approvals, approval_rule, approval)
               THEN raise_validation(op, approver_id, approval)
               ELSE /\ sessions' = [sessions EXCEPT ![s] =
                                       [pc |-> "found", op |-> op,
                                        approver_id |-> approver_id,
                                        approval |-> approval, stale |-> FALSE]]
                    /\ UNCHANGED <<approval_rule, expense_status, approvals, response>>

\* the attribute writes and db.commit(): the UPDATE addresses the row by
\* its key; it fails when the row is gone
commit_decision(s) ==
    LET call == sessions[s]
    IN /\ call.pc = "found"
       /\ IF call.stale
          THEN /\ response' = Response(call.op, call.approver_id, call.approval,
                                       "DatabaseError", NoSnapshot, {})
               /\ sessions' = [sessions EXCEPT ![s] = Idle]
               /\ UNCHANGED <<approval_rule, expense_status, approvals>>
          ELSE /\ approvals' = update_status(approvals, call.approval,
                                  IF call.op = "approve_expense" THEN "approved"
                                  ELSE "rejected")
               /\ expense_status' = IF call.op = "reject_expense" THEN "rejected"
                                    ELSE expense_status
               /\ sessions' = [sessions EXCEPT ![s].pc = "committed"]
               /\ UNCHANGED <<approval_rule, response>>

\* return check_expense_approval_status(db, expense_id)
return_status(s) ==
    LET call == sessions[s]
        result == check_status(expense_status, approvals, approval_rule)
    IN /\ call.pc = "committed"
       /\ expense_status' = result.status
       /\ approvals' = result.approvals
       /\ response' = Response(call.op, call.approver_id, call.approval, "",
                               result.snapshot, {})
       /\ sessions' = [sessions EXCEPT ![s] = Idle]
       /\ UNCHANGED approval_rule

NextConcurrent ==
    \/ initiate_expense_approval
    \/ \E s \in Sessions, op \in DecisionCalls, approver_id \in Users :
          find_pending_approval(s, op, approver_id)
    \/ \E s \in Sessions : commit_decision(s)
    \/ \E s \in Sessions : return_status(s)

\* the rules under which calls are interleaved
ConcurrentRules == { r \in ApprovalRules : Len(r.steps) <= MaxConcurrentSteps }

InitConcurrent ==
    /\ approval_rule \in ConcurrentRules
    /\ expense_status = "pending"
    /\ approvals = {}
    /\ response = Response("none", 0, NoTask, "", NoSnapshot, {})
    /\ sessions = [s \in Sessions |-> Idle]

SpecConcurrent == InitConcurrent /\ [][NextConcurrent]_vars

(***************************************************************************)
(* The service when a database query can fail.  A failing query inside     *)
(* check_expense_approval_status surfaces as DatabaseError (lines          *)
(* 194-197); one inside _can_manager_approve_now is swallowed and the      *)
(* method answers True (lines 339-341).  The pending-work views run one    *)
(* evaluation per pending row, in the order of the rows.                   *)
(***************************************************************************)
RECURSIVE check_repeated(_, _, _, _)
\* check_expense_approval_status run n times in a row
check_repeated(status, rows, rule, n) ==
    IF n = 0 THEN [status |-> status, approvals |-> rows]
    ELSE LET result == check_status(status, rows, rule)
         IN check_repeated(result.status, result.approvals, rule, n - 1)

\* get_manager_pending_reviews where the evaluation of the k-th pending
\* row raises: the earlier iterations have run (an approver with two
\* pending rows holds the pending manager row, so none of them sweeps),
\* the exception leaves the loop and the method raises DatabaseError
get_manager_pending_reviews_error(manager_id) ==
    \E k \in 1 .. Cardinality(pending_of(approvals, manager_id)) :
        LET before == check_repeated(expense_status, approvals, approval_rule, k - 1)
        IN /\ expense_status' = before.status
           /\ approvals' = before.approvals
           /\ response' = [Response("get_manager_pending_reviews", manager_id, NoTask,
                                     "DatabaseError", NoSnapshot, {})
                              EXCEPT !.fault = TRUE]
           /\ UNCHANGED <<approval_rule, sessions>>

\* get_admin_pending_reviews: every pending row is evaluated and listed;
\* with fail_at = k > 0 the k-th evaluation raises and so does the method
get_admin_pending_reviews(fail_at) ==
    LET pending_approvals == { a \in approvals : a.status = "pending" }
        done == IF fail_at = 0 THEN Cardinality(pending_approvals) ELSE fail_at - 1
        after == check_repeated(expense_status, approvals, approval_rule, done)
    IN /\ fail_at <= Cardinality(pending_approvals)
       /\ expense_status' = after.status
       /\ approvals' = after.approvals
       /\ response' = IF fail_at = 0
                      THEN Response("get_admin_pending_reviews", 0, NoTask, "",
                                    NoSnapshot, pending_approvals)
                      ELSE [Response("get_admin_pending_reviews", 0, NoTask,
                                     "DatabaseError", NoSnapshot, {})
                               EXCEPT !.fault = TRUE]
       /\ UNCHANGED <<approval_rule, sessions>>

\* approve_expense where a query inside _can_manager_approve_now raises:
\* the method answers True, the decision is written, and db.commit()
\* either goes through or fails with the connection (DatabaseError after
\* rollback)
approve_expense_fail_open(approver_id) ==
    \E approval \in pending_of(approvals, approver_id) :
        \/ LET result == check_status(expense_status,
                                      WithStatus(approvals, approval, "approved"),
                                      approval_rule)
           IN /\ expense_status' = result.status
              /\ approvals' = result.approvals
              /\ response' = [Response("approve_expense", approver_id, approval, "",
                                        result.snapshot, {})
                                 EXCEPT !.fault = TRUE]
              /\ UNCHANGED <<approval_rule, sessions>>
        \/ /\ response' = [Response("approve_expense", approver_id, approval,
                                      "DatabaseError", NoSnapshot, {})
                               EXCEPT !.fault = TRUE]
           /\ UNCHANGED <<approval_rule, expense_status, approvals, sessions>>

NextFault ==
    \/ Next
    \/ \E manager_id \in Users : get_manager_pending_reviews_error(manager_id)
    \/ \E fail_at \in 0 .. (MaxSteps + 1) : get_admin_pending_reviews(fail_at)
    \/ \E approver_id \in Users : approve_expense_fail_open(approver_id)

SpecFault == Init /\ [][NextFault]_vars

(***************************************************************************)
(* ApprovalRuleService: create, update and delete of the submitter's rule. *)
(* A request carries a list of approvers (approver_id, sequence_order);    *)
(* the approver ids are ids of existing users and may repeat, the orders   *)
(* are any integers around 1..N.                                           *)
(***************************************************************************)
\* approvers of a request that carries none (None)
NoApprovers == <<ApprovalStep(0, -1)>>

ApproverRequests ==
    { ApprovalStep(a, o) : a \in 1 .. MaxApprovers, o \in 1 .. (MaxApprovers + 1) }

RECURSIVE ListsUpTo(_)
\* the approver lists of at most n entries
ListsUpTo(n) ==
    IF n = 0 THEN {<<>>}
    ELSE LET shorter == ListsUpTo(n - 1)
         IN shorter \cup { Append(l, e) : l \in { x \in shorter : Len(x) = n - 1 },
                                          e \in ApproverRequests }

ApproverLists == ListsUpTo(MaxApprovers)

\* CreateApprovalRuleRequest; min_approval_percentage 0 stands for None too
CreateApprovalRuleRequests ==
    { [manager_id |-> m, is_manager_approver |-> g, approver_sequence |-> q,
       min_approval_percentage |-> p, approvers |-> l] :
        m \in {1}, g \in {TRUE}, q \in {"sequential", "parallel"},
        p \in {0}, l \in ApproverLists }

\* UpdateApprovalRuleRequest; manager_id and approvers can be None
UpdateApprovalRuleRequests ==
    { [manager_id |-> m, approvers |-> l] :
        m \in {NoManager}, l \in ApproverLists \cup {NoApprovers} }

sequence_orders(list) == { list[i].sequence_order : i \in 1 .. Len(list) }

approver_ids(list) == { list[i].approver_id : i \in 1 .. Len(list) }

Min(set) == CHOOSE x \in set : \A y \in set : x <= y

Max(set) == CHOOSE x \in set : \A y \in set : x >= y

\* the validation of the approvers without the check of min and max
validate_approvers_NoRange(list) ==
    IF Cardinality(approver_ids(list)) # Len(list) THEN "UserNotFoundError"
    ELSE IF Cardinality(sequence_orders(list)) # Len(list) THEN "ValidationError"
    ELSE IF list = <<>> THEN "DatabaseError"
    ELSE ""

\* the validation of the approvers: the error raised, "" when they pass.
\* The users found by id are fewer than the ids when an id repeats; min()
\* of an empty list raises ValueError, which is reported as DatabaseError.
validate_approvers(list) ==
    IF Cardinality(approver_ids(list)) # Len(list) THEN "UserNotFoundError"
    ELSE IF Cardinality(sequence_orders(list)) # Len(list) THEN "ValidationError"
    ELSE IF list = <<>> THEN "DatabaseError"
    ELSE IF Min(sequence_orders(list)) # 1 \/ Max(sequence_orders(list)) # Len(list)
    THEN "ValidationError"
    ELSE ""

\* what the approver list of a request is like
carried(list) ==
    IF list = NoApprovers THEN NoList
    ELSE [given |-> TRUE,
          orders_1_to_n |-> /\ sequence_orders(list) = 1 .. Len(list)
                            /\ \A i \in 1 .. Len(list), j \in 1 .. Len(list) :
                                  list[i].sequence_order = list[j].sequence_order
                                  => i = j,
          distinct_ids |-> \A i \in 1 .. Len(list), j \in 1 .. Len(list) :
                              list[i].approver_id = list[j].approver_id => i = j]

\* the call is rolled back and raises
rule_error(op, error, list) ==
    /\ response' = [Response(op, 0, NoTask, error, NoSnapshot, {})
                      EXCEPT !.approvers = carried(list)]
    /\ UNCHANGED <<approval_rule, expense_status, approvals, sessions>>

\* the rule is committed
rule_stored(op, rule, list) ==
    /\ approval_rule' = rule
    /\ response' = [Response(op, 0, NoTask, "", NoSnapshot, {})
                      EXCEPT !.approvers = carried(list)]
    /\ UNCHANGED <<expense_status, approvals, sessions>>

create_approval_rule(request) ==
    IF approval_rule # NoRule
    THEN rule_error("create_approval_rule", "ValidationError", request.approvers)
    ELSE IF validate_approvers(request.approvers) # ""
    THEN rule_error("create_approval_rule", validate_approvers(request.approvers),
                    request.approvers)
    ELSE rule_stored("create_approval_rule",
            [is_manager_approver |-> request.is_manager_approver,
             manager_id |-> request.manager_id,
             approver_sequence |-> IF request.approver_sequence = "sequential"
                                   THEN SEQUENTIAL ELSE PARALLEL,
             min_approval_percentage |-> IF request.min_approval_percentage = 0
                                         THEN 100
                                         ELSE request.min_approval_percentage,
             steps |-> request.approvers],
            request.approvers)

update_approval_rule(request) ==
    IF approval_rule = NoRule
    THEN rule_error("update_approval_rule", "ApprovalRuleNotFoundError",
                    request.approvers)
    ELSE IF request.approvers # NoApprovers /\ validate_approvers(request.approvers) # ""
    THEN rule_error("update_approval_rule", validate_approvers(request.approvers),
                    request.approvers)
    ELSE rule_stored("update_approval_rule",
            [approval_rule EXCEPT
                !.manager_id = IF request.manager_id # NoManager
                               THEN request.manager_id ELSE @,
                !.steps = IF request.approvers # NoApprovers
                          THEN request.approvers ELSE @],
            request.approvers)

InitRules ==
    /\ approval_rule = NoRule
    /\ expense_status = "pending"
    /\ approvals = {}
    /\ response = Response("none", 0, NoTask, "", NoSnapshot, {})
    /\ sessions = [s \in Sessions |-> Idle]

NextRules ==
    \/ \E request \in CreateApprovalRuleRequests : create_approval_rule(request)
    \/ \E request \in UpdateApprovalRuleRequests : update_approval_rule(request)
    \/ delete_approval_rule

SpecRules == InitRules /\ [][NextRules]_vars

(***************************************************************************)
(* Vocabulary of the properties                                            *)
(***************************************************************************)
HasRule == approval_rule # NoRule

Sequential == HasRule /\ approval_rule.approver_sequence = SEQUENTIAL

Parallel == HasRule /\ approval_rule.approver_sequence = PARALLEL

ManagerGate == HasRule /\ approval_rule.is_manager_approver

\* the last call returned a snapshot of an expense that has a rule
Returned(ops) == response.op \in ops /\ response.error = "" /\ HasRule

\* the row the call acts on is a pending step row of the expense
ActsOnStep == response'.task \in approvals /\ ~response'.task.is_manager_approval

\* some step before the row is pending or rejected
EarlierStepOpen(task) ==
    \E prev \in non_manager_approvals(approvals) :
        /\ prev.sequence_order < task.sequence_order
        /\ prev.status \in {"pending", "rejected"}

\* the call failed with a Validation error and wrote nothing
FailsValidation ==
    /\ response'.error = "ValidationError"
    /\ approvals' = approvals
    /\ expense_status' = expense_status

(***************************************************************************)
(* C1: in SEQUENTIAL mode approve_expense on a step row at sequence_order  *)
(* N fails with a Validation error, writing nothing, whenever a step row   *)
(* of the expense with a lower sequence_order is PENDING or REJECTED.      *)
(***************************************************************************)
C1_Step ==
    (/\ response'.op = "approve_expense"
     /\ Sequential
     /\ ActsOnStep
     /\ EarlierStepOpen(response'.task))
    => FailsValidation

C1_SequentialTurn == [][C1_Step]_vars

\* B (order 2) was refused while A (order 1) is pending, no manager gate
C1_Witness ==
    /\ Sequential /\ ~ManagerGate
    /\ response.op = "approve_expense"
    /\ response.error = "ValidationError"
    /\ response.task.sequence_order = 2
    /\ \E a \in approvals : a.sequence_order = 1 /\ a.status = "pending"

(***************************************************************************)
(* C2: with a manager gate, approve_expense on a step row fails with a     *)
(* Validation error while the manager row is not approved, so no step row  *)
(* is APPROVED while the manager row is PENDING or REJECTED; once the      *)
(* manager row is approved, approve_expense by the first step's approver   *)
(* succeeds.                                                               *)
(***************************************************************************)
ManagerRowApproved ==
    \E m \in approvals : m.is_manager_approval /\ m.status = "approved"

C2_Inv ==
    ManagerGate =>
        \A m \in approvals, a \in approvals :
            (m.is_manager_approval /\ m.status \in {"pending", "rejected"}
             /\ ~a.is_manager_approval)
            => a.status # "approved"

C2_Blocked ==
    (/\ response'.op = "approve_expense"
     /\ ManagerGate
     /\ ActsOnStep
     /\ ~ManagerRowApproved)
    => FailsValidation

C2_Cleared ==
    (/\ response'.op = "approve_expense"
     /\ ManagerGate
     /\ ActsOnStep
     /\ response'.task.sequence_order = 1
     /\ ManagerRowApproved)
    => /\ response'.error = ""
       /\ [response'.task EXCEPT !.status = "approved"] \in approvals'

C2_ManagerGate == [](C2_Inv) /\ [][C2_Blocked /\ C2_Cleared]_vars

\* the first step's approver approved after the manager did
C2_Witness ==
    /\ ManagerGate
    /\ response.op = "approve_expense"
    /\ response.error = ""
    /\ ~response.task.is_manager_approval
    /\ response.task.sequence_order = 1
    /\ ManagerRowApproved

(***************************************************************************)
(* C3: in PARALLEL mode without manager gate, the approve_expense call     *)
(* that brings the approved share of the open (pending or approved) rows   *)
(* from below min_approval_percentage up to it leaves the expense          *)
(* APPROVED; with two approvers and a minimum of 50, when one of them      *)
(* approves while the other has not acted the snapshot has                 *)
(* approval_percentage 50 and is_fully_approved, and the expense is        *)
(* APPROVED.                                                               *)
(***************************************************************************)
\* approved share of the open rows is at least min_approval_percentage
ThresholdMet(rows) ==
    approved_count(rows) * 100
        >= approval_rule.min_approval_percentage * total_required(rows)

C3_Reaches ==
    (/\ response'.op = "approve_expense"
     /\ response'.error = ""
     /\ Parallel /\ ~ManagerGate
     /\ ~ThresholdMet(approvals)
     /\ ThresholdMet(approvals'))
    => /\ expense_status' = "approved"
       /\ response'.snapshot.current_status = "approved"

C3_Example ==
    (/\ response'.op = "approve_expense"
     /\ response'.error = ""
     /\ Parallel /\ ~ManagerGate
     /\ Len(approval_rule.steps) = 2
     /\ approval_rule.min_approval_percentage = 50
     /\ \A a \in approvals : a.status = "pending")
    => /\ response'.snapshot.approval_percentage[1]
             = 50 * response'.snapshot.approval_percentage[2]
       /\ response'.snapshot.is_fully_approved
       /\ response'.snapshot.current_status = "approved"
       /\ expense_status' = "approved"

C3_ParallelThreshold == [][C3_Reaches /\ C3_Example]_vars

\* one of two parallel approvers approved under a minimum of 50
C3_Witness ==
    /\ Returned({"approve_expense"}) /\ Parallel /\ ~ManagerGate
    /\ Len(approval_rule.steps) = 2
    /\ approval_rule.min_approval_percentage = 50
    /\ approved_count(approvals) = 1
    /\ Cardinality(pending_of(approvals, 1) \cup pending_of(approvals, 2)) = 1
    /\ expense_status = "approved"

(***************************************************************************)
(* C4: when an evaluation (check_expense_approval_status, alone or at the  *)
(* end of approve_expense) finds the expense fully approved while its      *)
(* status is not yet APPROVED, then on return the expense is APPROVED and  *)
(* no row of the expense is PENDING.                                       *)
(***************************************************************************)
C4_Step ==
    (/\ response'.op \in {"check_expense_approval_status", "approve_expense"}
     /\ response'.error = ""
     /\ HasRule
     /\ response'.snapshot.is_fully_approved
     /\ expense_status # "approved")
    => /\ expense_status' = "approved"
       /\ \A a \in approvals' : a.status # "pending"

C4_SweepOnFullApproval == [][C4_Step]_vars

(***************************************************************************)
(* C5: after reject_expense succeeds the expense status is REJECTED, in    *)
(* the store and in the snapshot's current_status.                         *)
(***************************************************************************)
C5_RejectSetsRejected ==
    (response.op = "reject_expense" /\ response.error = "")
    => /\ expense_status = "rejected"
       /\ response.snapshot.current_status = "rejected"

(***************************************************************************)
(* C6: once a row is REJECTED and the expense status is REJECTED, no       *)
(* evaluation (check_expense_approval_status, alone or after a further     *)
(* approve_expense) changes the status away from REJECTED.                 *)
(***************************************************************************)
C6_Step ==
    (/\ expense_status = "rejected"
     /\ \E a \in approvals : a.status = "rejected"
     /\ response'.op \in {"check_expense_approval_status", "approve_expense"})
    => expense_status' = "rejected"

C6_RejectedIsTerminal == [][C6_Step]_vars

(***************************************************************************)
(* C7: once reject_expense has succeeded on a row of the expense, every    *)
(* snapshot returned for the expense has can_proceed_to_next_step = false. *)
(***************************************************************************)
C7_NoProceedAfterReject ==
    (/\ Returned({"reject_expense", "approve_expense", "check_expense_approval_status"})
     /\ \E a \in approvals : a.status = "rejected")
    => ~response.snapshot.can_proceed_to_next_step

(***************************************************************************)
(* C8: SEQUENTIAL rule with N >= 2 steps, no manager gate and a minimum of *)
(* 100: when the approvers approve in ascending sequence_order every       *)
(* approve_expense succeeds, the status is IN_PROGRESS after each approval *)
(* but the last, and the last returns is_fully_approved with the expense   *)
(* APPROVED.                                                               *)
(***************************************************************************)
\* steps below k are approved, steps from k on are pending
ApprovedUpTo(k) ==
    /\ approvals # {}
    /\ \A a \in approvals :
          a.status = IF a.sequence_order < k THEN "approved" ELSE "pending"

C8_Rule ==
    /\ Sequential /\ ~ManagerGate
    /\ approval_rule.min_approval_percentage = 100
    /\ Len(approval_rule.steps) >= 2

C8_Step ==
    \A k \in 1 .. MaxSteps + 1 :
        (/\ C8_Rule
         /\ k <= Len(approval_rule.steps)
         /\ ApprovedUpTo(k)
         /\ response'.op = "approve_expense"
         /\ response'.approver_id = approval_rule.steps[k].approver_id)
        => /\ response'.error = ""
           /\ ApprovedUpTo(k + 1)'
           /\ k < Len(approval_rule.steps)
                => /\ expense_status' = "in_progress"
                   /\ ~response'.snapshot.is_fully_approved
           /\ k = Len(approval_rule.steps)
                => /\ expense_status' = "approved"
                   /\ response'.snapshot.is_fully_approved
                   /\ response'.snapshot.current_status = "approved"

C8_SequentialChain == [][C8_Step]_vars

\* the last approver of the chain approved
C8_Witness ==
    /\ C8_Rule
    /\ response.op = "approve_expense" /\ response.error = ""
    /\ response.task.sequence_order = Len(approval_rule.steps)
    /\ \A a \in approvals : a.status = "approved"
    /\ expense_status = "approved"

(***************************************************************************)
(* C9: approve_expense, reject_expense and submit_approval fail with a     *)
(* Validation error, leaving the row PENDING, when the row they select is  *)
(* not actionable: its manager gate is still pending or an earlier         *)
(* SEQUENTIAL step is not approved.                                        *)
(***************************************************************************)
GatePending ==
    ManagerGate /\ \E m \in approvals : m.is_manager_approval /\ m.status = "pending"

C9_Step ==
    (/\ response'.op \in {"approve_expense", "reject_expense", "submit_approval"}
     /\ HasRule
     /\ ActsOnStep
     /\ \/ GatePending
        \/ Sequential /\ EarlierStepOpen(response'.task))
    => /\ response'.error = "ValidationError"
       /\ response'.task \in approvals'

C9_DecisionRechecks == [][C9_Step]_vars

(***************************************************************************)
(* C10: check_expense_approval_status on an expense whose status is        *)
(* APPROVED or REJECTED writes nothing: the expense status and every row   *)
(* are the same after the call as before it.                               *)
(***************************************************************************)
C10_Step ==
    (/\ response'.op = "check_expense_approval_status"
     /\ expense_status \in {"approved", "rejected"})
    => /\ expense_status' = expense_status
       /\ approvals' = approvals

C10_TerminalCheckIdempotent == [][C10_Step]_vars

(***************************************************************************)
(* C11: re-initiation replaces instead of accumulating: when               *)
(* initiate_expense_approval runs on an expense that already has rows,     *)
(* under the same rule and whatever decisions were recorded on them, the   *)
(* expense afterwards has the same rows as before up to their status (the  *)
(* rows of a single initiation), exactly one row per (approver,            *)
(* is_manager_approval) pair, and all of them PENDING.                     *)
(***************************************************************************)
\* the columns of a row that initiation fills in
TaskKey(a) == <<a.approver_id, a.sequence_order, a.is_manager_approval>>

TaskKeys(rows) == { TaskKey(a) : a \in rows }

OnePerApprover(rows) ==
    \A a \in rows, b \in rows :
        (a.approver_id = b.approver_id /\ a.is_manager_approval = b.is_manager_approval)
        => a = b

C11_Step ==
    (/\ response'.op = "initiate_expense_approval"
     /\ HasRule
     /\ approvals # {})
    => /\ TaskKeys(approvals') = TaskKeys(approvals)
       /\ Cardinality(approvals') = Cardinality(approvals)
       /\ OnePerApprover(approvals')
       /\ \A a \in approvals' : a.status = "pending"

C11_ReinitiationReplaces == [][C11_Step]_vars

\* a second initiation replaced rows on which decisions had been recorded
C11_Witness ==
    /\ HasRule
    /\ response.op = "initiate_expense_approval"
    /\ \E a \in response.replaced : a.status = "approved"
    /\ \E a \in response.replaced : a.status = "rejected"
    /\ approvals # {}
    /\ \A a \in approvals : a.status = "pending"

(***************************************************************************)
(* C12: initiate_expense_approval on an expense whose submitter has a rule *)
(* creates exactly one manager row (sequence_order 0, is_manager_approval, *)
(* approver = rule.manager_id) if and only if the rule's                   *)
(* is_manager_approver flag and manager_id are both set, plus one          *)
(* non-manager row per rule step with that step's approver and             *)
(* sequence_order; every row is PENDING and the expense is IN_PROGRESS.    *)
(***************************************************************************)
ManagerTasks == { a \in approvals : a.is_manager_approval }

StepTasks == { a \in approvals : ~a.is_manager_approval }

C12_InitiateCreates ==
    (response.op = "initiate_expense_approval" /\ HasRule)
    => /\ IF approval_rule.is_manager_approver /\ approval_rule.manager_id # NoManager
          THEN ManagerTasks = {[approver_id |-> approval_rule.manager_id,
                                sequence_order |-> 0,
                                is_manager_approval |-> TRUE,
                                status |-> "pending"]}
          ELSE ManagerTasks = {}
       /\ Cardinality(StepTasks) = Len(approval_rule.steps)
       /\ \A i \in 1 .. Len(approval_rule.steps) :
             \E a \in StepTasks :
                /\ a.approver_id = approval_rule.steps[i].approver_id
                /\ a.sequence_order = approval_rule.steps[i].sequence_order
       /\ \A a \in approvals : a.status = "pending"
       /\ expense_status = "in_progress"

\* a rule with manager gate and three steps was initiated
C12_Witness ==
    /\ response.op = "initiate_expense_approval"
    /\ ManagerGate /\ approval_rule.manager_id # NoManager
    /\ Len(approval_rule.steps) = 3
    /\ Cardinality(ManagerTasks) = 1
    /\ Cardinality(StepTasks) = 3
    /\ expense_status = "in_progress"

(***************************************************************************)
(* C13: initiate_expense_approval on an expense whose submitter has no     *)
(* approval rule sets the expense status to APPROVED and leaves the        *)
(* expense with no rows, whatever status and rows it had before the call.  *)
(***************************************************************************)
C13_Step ==
    (response'.op = "initiate_expense_approval" /\ ~HasRule)
    => /\ expense_status' = "approved"
       /\ approvals' = {}

C13_NoRuleApprovesAndClears == [][C13_Step]_vars

C15_Step ==
    response'.op \in {"approve_expense", "reject_expense",
                      "check_expense_approval_status", "get_manager_pending_reviews"}
    => /\ TaskKeys(approvals') = TaskKeys(approvals)
       /\ Cardinality(approvals') = Cardinality(approvals)
       /\ \A a \in approvals :
             \E b \in approvals' :
                /\ TaskKey(b) = TaskKey(a)
                /\ \/ b.status = a.status
                   \/ /\ a.status = "pending"
                      /\ b.status \in {"approved", "rejected", "auto_approved"}

C15_TaskDecidedOnce == [][C15_Step]_vars

\* rows were approved, rejected and swept, and a later call left them alone
C15_Witness ==
    /\ response.op \in {"approve_expense", "reject_expense",
                        "check_expense_approval_status", "get_manager_pending_reviews"}
    /\ \E a \in approvals : a.status = "approved"
    /\ \E a \in approvals : a.status = "rejected"
    /\ \E a \in approvals : a.status = "auto_approved"

(***************************************************************************)
(* C16: at most one decision under concurrency: when two decision calls    *)
(* (approve_expense and/or reject_expense) for the same expense and        *)
(* approver interleave at their lookup, write and commit steps, at most    *)
(* one of them records its decision on the row: a call commits its write   *)
(* only on a row that is still PENDING, so no row receives two decisions.  *)
(***************************************************************************)
C16_Step ==
    \A s \in Sessions :
        (sessions[s].pc = "found" /\ sessions'[s].pc = "committed")
        => \E a \in approvals :
              same_row(a, sessions[s].approval) /\ a.status = "pending"

C16_AtMostOneDecision == [][C16_Step]_vars

(***************************************************************************)
(* C17: every item returned by get_manager_pending_reviews(approver) is a  *)
(* PENDING row of that approver, of an expense that the evaluation run by  *)
(* the call reports as not fully approved, and on which the approver can   *)
(* act now: it is the manager row, or the manager gate (if any) is         *)
(* approved and, in SEQUENTIAL mode, every earlier step is approved.  No   *)
(* row of an expense the evaluation would auto-approve, and no row the     *)
(* approver cannot act on yet, is in the result.                           *)
(***************************************************************************)
CanActNow(task) ==
    \/ task.is_manager_approval /\ ManagerGate
    \/ /\ ManagerGate => ManagerRowApproved
       /\ Sequential =>
             \A prev \in StepTasks :
                prev.sequence_order < task.sequence_order => prev.status = "approved"

\* verdict of an evaluation of the expense as it is stored
EvaluatesFullyApproved ==
    check_status(expense_status, approvals, approval_rule).snapshot.is_fully_approved

C18_BatchSurvivesFailure ==
    (/\ response.op \in {"get_manager_pending_reviews", "get_admin_pending_reviews"}
     /\ response.fault)
    => response.error = ""

(***************************************************************************)
(* C19: the fail-open eligibility check cannot corrupt state: even when a  *)
(* lookup inside the check fails during approve_expense, no decision is    *)
(* written on a row that is blocked by the manager gate or by an earlier   *)
(* SEQUENTIAL step that is not approved.                                   *)
(***************************************************************************)
C19_Step ==
    (/\ response'.op = "approve_expense"
     /\ response'.fault
     /\ ActsOnStep
     /\ \/ ManagerGate /\ ~ManagerRowApproved
        \/ Sequential /\ \E prev \in StepTasks :
                            /\ prev.sequence_order < response'.task.sequence_order
                            /\ prev.status # "approved")
    => response'.task \in approvals'

C19_FailOpenWritesNothing == [][C19_Step]_vars

(***************************************************************************)
(* C20: create_approval_rule and update_approval_rule reject every         *)
(* approver list whose sequence_order values are not a permutation of      *)
(* 1..N (N the number of approvers in the request) and leave the stored    *)
(* rule unchanged; the error is a Validation error when the approver ids   *)
(* of the list are distinct and, for an update, the rule exists, and the   *)
(* error of the earlier check (UserNotFound, ApprovalRuleNotFound)         *)
(* otherwise.  Hence after any sequence of create, update and delete every *)
(* stored rule's steps have the sequence orders 1..N, each once.           *)
(***************************************************************************)
RuleCalls == {"create_approval_rule", "update_approval_rule"}

\* the call carried an approver list whose orders are not 1..N
BadOrdersRequested ==
    /\ response'.op \in RuleCalls
    /\ response'.approvers.given
    /\ ~response'.approvers.orders_1_to_n

C20_Inv ==
    HasRule =>
        /\ \A i \in 1 .. Len(approval_rule.steps) :
              approval_rule.steps[i].sequence_order \in 1 .. Len(approval_rule.steps)
        /\ \A i \in 1 .. Len(approval_rule.steps), j \in 1 .. Len(approval_rule.steps) :
              approval_rule.steps[i].sequence_order = approval_rule.steps[j].sequence_order
              => i = j

C20_Step ==
    BadOrdersRequested
    => /\ approval_rule' = approval_rule
       /\ response'.error # ""
       /\ (/\ response'.approvers.distinct_ids
           /\ response'.op = "update_approval_rule" => HasRule)
          => response'.error = "ValidationError"

C20_AlwaysValidation_Step ==
    BadOrdersRequested
    => /\ approval_rule' = approval_rule
       /\ response'.error = "ValidationError"

ApprovedOrAuto(rows) == { a \in rows : a.status \in {"approved", "auto_approved"} }

\* rows that are pending or approved in the statement
PendingOrApproved(rows) ==
    { a \in rows : a.status \in {"pending", "approved", "auto_approved"} }

\* the fractions p and q are the same number
SameFraction(p, q) == p[1] * q[2] = q[1] * p[2]

C21_Step ==
    (/\ response'.op = "check_expense_approval_status"
     /\ response'.error = ""
     /\ HasRule)
    => SameFraction(response'.snapshot.approval_percentage,
                    Percentage(Cardinality(ApprovedOrAuto(approvals)),
                               Cardinality(PendingOrApproved(approvals))))

C21_SnapshotPercentage == [][C21_Step]_vars

(***************************************************************************)
(* C22: in SEQUENTIAL mode with the manager gate absent or cleared, the    *)
(* snapshot's next_approver is the approver of the PENDING step row with   *)
(* the lowest sequence_order, with can_proceed_to_next_step = true, unless *)
(* a step row with a lower sequence_order is REJECTED, in which case       *)
(* can_proceed_to_next_step = false and next_approver is empty; while the  *)
(* manager row is pending, next_approver is the manager and                *)
(* can_proceed_to_next_step = false.                                       *)
(***************************************************************************)
SnapshotCalls == {"initiate_expense_approval", "check_expense_approval_status",
                  "approve_expense", "reject_expense"}

\* the rows the snapshot of the last call lists
Listed == response.snapshot.pending_approvals \cup response.snapshot.completed_approvals

ListedSteps == { a \in Listed : ~a.is_manager_approval }

PendingSteps == { a \in ListedSteps : a.status = "pending" }

\* the rule has no manager gate, or the listed manager row is approved
GateAbsentOrCleared ==
    \/ ~approval_rule.is_manager_approver
    \/ \E m \in Listed : m.is_manager_approval /\ m.status = "approved"

C22_NextApprover ==
    (Returned(SnapshotCalls) /\ Sequential)
    => /\ (GateAbsentOrCleared /\ PendingSteps # {})
          => LET first == CHOOSE a \in PendingSteps :
                              \A b \in PendingSteps : a.sequence_order <= b.sequence_order
             IN IF \E r \in ListedSteps : /\ r.sequence_order < first.sequence_order
                                          /\ r.status = "rejected"
                THEN /\ ~response.snapshot.can_proceed_to_next_step
                     /\ response.snapshot.next_approver = None
                ELSE /\ response.snapshot.can_proceed_to_next_step
                     /\ response.snapshot.next_approver = ApproverName(first)
       /\ \A m \in Listed :
             (approval_rule.is_manager_approver /\ m.is_manager_approval
              /\ m.status = "pending")
             => /\ response.snapshot.next_approver = ApproverName(m)
                /\ ~response.snapshot.can_proceed_to_next_step

\* the first approver rejected while the second is pending, and the
\* snapshot names nobody
C22_Witness ==
    /\ Returned({"reject_expense"}) /\ Sequential /\ ~ManagerGate
    /\ response.task.sequence_order = 1
    /\ \E a \in PendingSteps : a.sequence_order = 2
    /\ response.snapshot.next_approver = None
    /\ ~response.snapshot.can_proceed_to_next_step

(***************************************************************************)
(* C23: for a SEQUENTIAL rule, in every state reached from                 *)
(* initiate_expense_approval by approve_expense, reject_expense,           *)
(* check_expense_approval_status and the auto-approval sweep, no step row  *)
(* is APPROVED while a step row with a lower sequence_order is PENDING.    *)
(***************************************************************************)
C23_NoApprovedAfterPending ==
    Sequential =>
        \A a \in StepTasks, b \in StepTasks :
            (a.status = "approved" /\ b.sequence_order < a.sequence_order)
            => b.status # "pending"

\* the first two of three steps are approved, the third is pending
C23_Witness ==
    /\ Sequential
    /\ response.op = "approve_expense" /\ response.error = ""
    /\ response.task.sequence_order = 2
    /\ \E a \in StepTasks : a.sequence_order = 1 /\ a.status = "approved"
    /\ \E a \in StepTasks : a.sequence_order = 2 /\ a.status = "approved"
    /\ \E a \in StepTasks : a.sequence_order = 3 /\ a.status = "pending"

(***************************************************************************)
(* C24: a decision call that fails changes nothing: when approve_expense   *)
(* or reject_expense raises a Validation error (no PENDING row for that    *)
(* approver, or the row is not actionable now), every row and the expense  *)
(* status are the same after the call as before it.                        *)
(***************************************************************************)
C24_Step ==
    (/\ response'.op \in DecisionCalls
     /\ response'.error = "ValidationError")
    => /\ approvals' = approvals
       /\ expense_status' = expense_status

C24_FailedDecisionWritesNothing == [][C24_Step]_vars

\* approve_expense was refused on a pending row that is not actionable,
\* after decisions had been recorded on other rows
C24_Witness ==
    /\ response.op = "approve_expense"
    /\ response.error = "ValidationError"
    /\ response.task \in approvals
    /\ response.task.status = "pending"
    /\ \E a \in approvals : a.status = "approved"
    /\ \E a \in approvals : a.status = "rejected"

(***************************************************************************)
(* C25: in every reachable state, under every rule that                    *)
(* create_approval_rule accepts (a rule whose manager_id is also the       *)
(* approver of one of its steps included), every approver has at most one  *)
(* PENDING row of the expense, so the row a decision call looks up by      *)
(* approver is unique.                                                     *)
(***************************************************************************)
C25_OnePendingPerApprover ==
    \A approver_id \in Users : Cardinality(pending_of(approvals, approver_id)) <= 1

(***************************************************************************)
(* C26: APPROVED is a stable expense status: once the status is APPROVED,  *)
(* no approve_expense, reject_expense, check_expense_approval_status or    *)
(* pending-work view call changes it to another status.                    *)
(***************************************************************************)
C26_Step ==
    (/\ expense_status = "approved"
     /\ response'.op \in {"approve_expense", "reject_expense",
                          "check_expense_approval_status",
                          "get_manager_pending_reviews"})
    => expense_status' = "approved"

C26_ApprovedIsStable == [][C26_Step]_vars

(***************************************************************************)
(* C27: no initiated expense is stuck, for every rule that                 *)
(* create_approval_rule accepts (any combination of manager gate flag,     *)
(* optional manager_id, mode and threshold): in every IN_PROGRESS state    *)
(* without a REJECTED row at least one PENDING row is actionable, that is, *)
(* approve_expense accepts it.                                             *)
(***************************************************************************)
\* approve_expense accepts the row now
Actionable(a) ==
    a.status = "pending" /\ can_manager_approve_now(approvals, approval_rule, a)

C27_SomeTaskActionable ==
    (/\ HasRule
     /\ expense_status = "in_progress"
     /\ \A a \in approvals : a.status # "rejected")
    => \E a \in approvals : Actionable(a)

(***************************************************************************)
(* C28: snapshot and stored status agree: in every snapshot returned by    *)
(* check_expense_approval_status, approve_expense or reject_expense for an *)
(* expense that has a rule, is_fully_approved is true if and only if       *)
(* current_status is APPROVED, and current_status equals the expense       *)
(* status in the store when the call returns.                              *)
(***************************************************************************)
C28_SnapshotAgreesWithStore ==
    Returned({"check_expense_approval_status", "approve_expense", "reject_expense"})
    => /\ response.snapshot.is_fully_approved
             <=> response.snapshot.current_status = "approved"
       /\ response.snapshot.current_status = expense_status

(***************************************************************************)
(* C29: the two eligibility paths agree: in every reachable state of an    *)
(* expense under a SEQUENTIAL rule, a PENDING row is actionable according  *)
(* to the decision-time check (_can_manager_approve_now) if and only if    *)
(* the snapshot computed from the same state names the row's approver as   *)
(* next_approver, with can_proceed_to_next_step = true for a step row, or  *)
(* as the pending manager (can_proceed_to_next_step = false) for the       *)
(* manager row.                                                            *)
(***************************************************************************)
\* <<can_proceed, next_approver>> of a snapshot of the stored rows
Progression ==
    check_approval_progression(approvals, approval_rule,
                               manager_approved(approvals, approval_rule))

\* the snapshot names the row's approver as the one to act
NamedNext(a) ==
    Progression = <<~a.is_manager_approval, ApproverName(a)>>

C29_EligibilityPathsAgree ==
    Sequential =>
        \A a \in approvals :
            a.status = "pending" => (Actionable(a) <=> NamedNext(a))

(***************************************************************************)
(* C30: get_manager_pending_reviews never offers work on a dead expense:   *)
(* when the call returns an item, the expense status is not REJECTED and   *)
(* no row of the expense is REJECTED, in SEQUENTIAL and in PARALLEL mode.  *)
(***************************************************************************)
C30_NoWorkOnDeadExpense ==
    (/\ response.op = "get_manager_pending_reviews"
     /\ response.error = ""
     /\ response.pending_reviews # {})
    => /\ expense_status # "rejected"
       /\ \A a \in approvals : a.status # "rejected"

====
